---- MODULE Spec2Model ----
(***************************************************************************)
(* Model of the statistics worker of the BenchExec table generator         *)
(* (react-table/src/workers/scripts/stats.worker.js).                      *)
(*                                                                         *)
(* One request (data, transaction) is handled by onmessage.  The handler   *)
(* is modelled phase by phase: filter and infinity rewriting, sort, the    *)
(* bucketing loop (one step per row), the mean/median pass, the variance   *)
(* loop (one step per row), serialization and postResult.                  *)
(*                                                                         *)
(* JavaScript values are records [ty, k, n, d, s]:                         *)
(*   ty = "number":  k = "fin" (the rational n/d), "sqrt" (the square root *)
(*                   of n/d, not rational), "inf", "ninf", "nan"           *)
(*   ty = "string":  k = "dec" (the decimal text of n/d), "decsqrt" (the   *)
(*                   decimal text of sqrt(n/d)), "lit" (the characters s,  *)
(*                   a text that is not a decimal numeral)                 *)
(*   ty = "undefined", ty = "null"                                         *)
(* Finite arithmetic is exact (rationals); binary rounding is not modelled.*)
(***************************************************************************)
EXTENDS Integers, Sequences, FiniteSets, TLC

\* ---------------------------------------------------------------- bounds
MaxRows == 3
MaxRowsMedian == 4

\* ------------------------------------------------------- JavaScript values
Abs(x) == IF x < 0 THEN -x ELSE x

RECURSIVE Gcd(_, _)
Gcd(a, b) == IF b = 0 THEN a ELSE Gcd(b, a % b)

Fin(n, d) ==
  LET g == Gcd(Abs(n), d)
  IN  [ty |-> "number", k |-> "fin", n |-> n \div g, d |-> d \div g, s |-> <<>>]
PosInf == [ty |-> "number", k |-> "inf", n |-> 0, d |-> 1, s |-> <<>>]
NegInf == [ty |-> "number", k |-> "ninf", n |-> 0, d |-> 1, s |-> <<>>]
NaN == [ty |-> "number", k |-> "nan", n |-> 0, d |-> 1, s |-> <<>>]
Root(n, d) == [ty |-> "number", k |-> "sqrt", n |-> n, d |-> d, s |-> <<>>]
Undefined == [ty |-> "undefined", k |-> "", n |-> 0, d |-> 1, s |-> <<>>]
Null == [ty |-> "null", k |-> "", n |-> 0, d |-> 1, s |-> <<>>]
Lit(s) == [ty |-> "string", k |-> "lit", n |-> 0, d |-> 1, s |-> s]
Dec(n) == [ty |-> "string", k |-> "dec", n |-> n, d |-> 1, s |-> <<>>]

TxNaN == <<"N", "a", "N">>
TxInf == <<"I", "n", "f">>
TxInfinity == <<"I", "n", "f", "i", "n", "i", "t", "y">>
TxAbc == <<"a", "b", "c">>
TxTrue == <<"t", "r", "u", "e">>

\* Number(v): the numeric value of a JavaScript value.
ToNumber(v) ==
  CASE v.ty = "number" -> v
    [] v.ty = "undefined" -> NaN
    [] v.ty = "null" -> Fin(0, 1)
    [] v.ty = "string" /\ v.k = "dec" -> Fin(v.n, v.d)
    [] v.ty = "string" /\ v.k = "decsqrt" -> Root(v.n, v.d)
    [] v.ty = "string" /\ v.k = "lit" ->
         IF v.s = TxInfinity \/ v.s = <<"+">> \o TxInfinity THEN PosInf
         ELSE IF v.s = <<"-">> \o TxInfinity THEN NegInf
         ELSE IF v.s = <<>> THEN Fin(0, 1)
         ELSE NaN

IsNaNValue(v) == ToNumber(v).k = "nan"
IsInteger(x) == x.k = "fin" /\ x.d = 1
Truthy(x) == ~(x.k = "nan" \/ (x.k = "fin" /\ x.n = 0))

NumNeg(x) ==
  CASE x.k = "fin" -> Fin(-x.n, x.d)
    [] x.k = "inf" -> NegInf
    [] x.k = "ninf" -> PosInf
    [] x.k = "nan" -> NaN

NumAdd(x, y) ==
  CASE x.k = "nan" \/ y.k = "nan" -> NaN
    [] x.k = "fin" /\ y.k = "fin" -> Fin(x.n * y.d + y.n * x.d, x.d * y.d)
    [] x.k = "inf" /\ y.k = "ninf" -> NaN
    [] x.k = "ninf" /\ y.k = "inf" -> NaN
    [] x.k = "inf" /\ y.k \in {"fin", "inf"} -> PosInf
    [] x.k = "ninf" /\ y.k \in {"fin", "ninf"} -> NegInf
    [] x.k = "fin" /\ y.k = "inf" -> PosInf
    [] x.k = "fin" /\ y.k = "ninf" -> NegInf

NumSub(x, y) == NumAdd(x, NumNeg(y))

\* x / c for a count c >= 0 (an array length).
NumDiv(x, c) ==
  CASE x.k = "nan" -> NaN
    [] x.k = "fin" /\ c > 0 -> Fin(x.n, x.d * c)
    [] x.k = "fin" /\ c = 0 ->
         IF x.n = 0 THEN NaN ELSE IF x.n > 0 THEN PosInf ELSE NegInf
    [] x.k \in {"inf", "ninf"} -> x

\* Math.pow(x, 2)
NumSquare(x) ==
  CASE x.k = "nan" -> NaN
    [] x.k = "fin" -> Fin(x.n * x.n, x.d * x.d)
    [] x.k \in {"inf", "ninf"} -> PosInf

IsSquare(m) == \E r \in 0..m : r * r = m
IntRoot(m) == CHOOSE r \in 0..m : r * r = m

\* Math.sqrt(x)
MathSqrt(x) ==
  CASE x.k = "nan" \/ x.k = "ninf" -> NaN
    [] x.k = "inf" -> PosInf
    [] x.k = "fin" /\ x.n < 0 -> NaN
    [] x.k = "fin" /\ x.n >= 0 ->
         IF IsSquare(x.n) /\ IsSquare(x.d)
         THEN Fin(IntRoot(x.n), IntRoot(x.d))
         ELSE Root(x.n, x.d)

\* x < y on numbers; false when either is NaN.
NumLess(x, y) ==
  CASE x.k = "nan" \/ y.k = "nan" -> FALSE
    [] x.k = "fin" /\ y.k = "fin" -> x.n * y.d < y.n * x.d
    [] x.k = "ninf" -> y.k # "ninf"
    [] x.k = "inf" -> FALSE
    [] x.k = "fin" /\ y.k = "inf" -> TRUE
    [] x.k = "fin" /\ y.k = "ninf" -> FALSE

Digit(i) == <<"0", "1", "2", "3", "4", "5", "6", "7", "8", "9">>[i + 1]

RECURSIVE NatText(_)
NatText(m) == IF m < 10 THEN <<Digit(m)>> ELSE NatText(m \div 10) \o <<Digit(m % 10)>>

\* value.toString(): a number becomes its text, a string stays itself.
JsToString(v) ==
  CASE v.ty = "string" -> v
    [] v.ty = "number" /\ v.k = "fin" ->
         [ty |-> "string", k |-> "dec", n |-> v.n, d |-> v.d, s |-> <<>>]
    [] v.ty = "number" /\ v.k = "sqrt" ->
         [ty |-> "string", k |-> "decsqrt", n |-> v.n, d |-> v.d, s |-> <<>>]
    [] v.ty = "number" /\ v.k = "inf" -> Lit(TxInfinity)
    [] v.ty = "number" /\ v.k = "ninf" -> Lit(<<"-">> \o TxInfinity)
    [] v.ty = "number" /\ v.k = "nan" -> Lit(TxNaN)

\* The characters of a value's text, for string concatenation.  Only texts
\* of integers and of non-finite numbers are ever concatenated.
Chars(v) ==
  LET t == JsToString(v)
  IN  CASE t.k = "lit" -> t.s
        [] t.k = "dec" /\ t.d = 1 /\ t.n >= 0 -> NatText(t.n)
        [] t.k = "dec" /\ t.d = 1 /\ t.n < 0 -> <<"-">> \o NatText(-t.n)

\* a + b: string concatenation when either operand is a string.
JsPlus(a, b) ==
  IF a.ty = "string" \/ b.ty = "string"
  THEN Lit(Chars(a) \o Chars(b))
  ELSE NumAdd(a, b)

\* string.endsWith(suffix) and the first-occurrence string.replace on texts.
EndsWith(s, suf) ==
  Len(s) >= Len(suf) /\ SubSeq(s, Len(s) - Len(suf) + 1, Len(s)) = suf

Occurs(s, pat, i) == i + Len(pat) - 1 <= Len(s) /\ SubSeq(s, i, i + Len(pat) - 1) = pat

Replace(s, pat, by) ==
  IF \E i \in 1..Len(s) : Occurs(s, pat, i)
  THEN LET i == CHOOSE j \in 1..Len(s) :
                  Occurs(s, pat, j) /\ \A h \in 1..(j - 1) : ~Occurs(s, pat, h)
       IN  SubSeq(s, 1, i - 1) \o by \o SubSeq(s, i + Len(pat), Len(s))
  ELSE s

\* ------------------------------------------------------ objects and keys
\* A JavaScript object is a function from its own property names to values.
Put(obj, key, val) == [x \in (DOMAIN obj) \cup {key} |-> IF x = key THEN val ELSE obj[x]]
Without(obj, gone) == [x \in (DOMAIN obj) \ gone |-> obj[x]]
Has(obj, key) == key \in DOMAIN obj

\* --------------------------------------------------------- pure functions
\* For the rows of this model a sum is an integer or not finite, so toFixed
\* is only ever applied to a non-finite number, whose text it leaves alone.
safeAdd(a, b) ==
  LET aNum == IF a.ty = "string" THEN ToNumber(a) ELSE a
      bNum == IF b.ty = "string" THEN ToNumber(b) ELSE b
      plain == NumAdd(aNum, bNum)
  IN  IF IsInteger(aNum) \/ IsInteger(bNum)
      THEN plain
      ELSE CASE plain.k \in {"inf", "ninf", "nan"} -> ToNumber(JsToString(plain))

mathStringMax(a, b) == IF NumLess(ToNumber(b), ToNumber(a)) THEN a ELSE b

mathStringMin(a, b) == IF NumLess(ToNumber(a), ToNumber(b)) THEN a ELSE b

maybeAdd(a, b, type) ==
  IF Truthy(ToNumber(b)) THEN safeAdd(a, b)
  ELSE IF type = "status" THEN JsPlus(a, Fin(1, 1))
  ELSE a

\* values with avg set; count is allItems.length.
calculateMean(values, count) ==
  LET numMin == ToNumber(values.min)
      numMax == ToNumber(values.max)
  IN  IF numMin = NegInf /\ numMax = PosInf
      THEN [values EXCEPT !.avg = Lit(TxNaN)]
      ELSE IF numMin = NegInf
      THEN [values EXCEPT !.avg = Lit(<<"-">> \o TxInfinity)]
      ELSE IF numMax = PosInf
      THEN [values EXCEPT !.avg = Lit(TxInfinity)]
      ELSE [values EXCEPT !.avg = NumDiv(ToNumber(values.sum), count)]

\* values with median set; columns are the column values of allItems in order
\* (not empty: allItems[-1].column of an empty list is a TypeError).
calculateMedian(values, columns) ==
  LET len == Len(columns)
  IN  IF len % 2 = 0
      THEN LET idx == len \div 2
           IN  [values EXCEPT !.median =
                  NumDiv(NumAdd(ToNumber(columns[idx]), ToNumber(columns[idx + 1])), 2)]
      ELSE [values EXCEPT !.median = columns[(len \div 2) + 1]]

calculateStdev(hasNegInf, hasPosInf, variance, size) ==
  IF hasNegInf /\ hasPosInf THEN Lit(TxNaN)
  ELSE IF hasNegInf \/ hasPosInf THEN PosInf
  ELSE MathSqrt(NumDiv(ToNumber(variance), size))

shouldSkipBucket(bucketMeta, key) == Has(bucketMeta, key) /\ bucketMeta[key].hasNaN

\* item.column.endsWith is a TypeError unless the column is a string.
ParseThrowsOn(item) == item.columnType # "status" /\ item.column.ty # "string"

\* One item of parsePythonInfinityValues' map: the item itself, its column
\* rewritten in place.  A decimal numeral never ends in "Inf".
ParseItem(item) ==
  IF item.columnType = "status" \/ ~(item.column.k = "lit" /\ EndsWith(item.column.s, TxInf))
  THEN item
  ELSE [item EXCEPT !.column = Lit(Replace(item.column.s, TxInf, TxInfinity))]

\* The objects after parsePythonInfinityValues(copy): rows is the array of all
\* row objects, kept the positions of the rows of copy in order.  The map stops
\* at the first item that throws; the items before it are already rewritten.
parsePythonInfinityValues(rows, kept) ==
  LET stop == IF \E p \in 1..Len(kept) : ParseThrowsOn(rows[kept[p]])
              THEN CHOOSE p \in 1..Len(kept) :
                     /\ ParseThrowsOn(rows[kept[p]])
                     /\ \A q \in 1..(p - 1) : ~ParseThrowsOn(rows[kept[q]])
              ELSE Len(kept) + 1
      done == {kept[p] : p \in 1..(stop - 1)}
  IN  [j \in 1..Len(rows) |-> IF j \in done THEN ParseItem(rows[j]) ELSE rows[j]]

ParseThrows(rows, kept) == \E p \in 1..Len(kept) : ParseThrowsOn(rows[kept[p]])

\* The filter without its null check.
KeepRowNullValue(row) == row.present /\ row.column.ty # "undefined"

\* The filter of onmessage: i && i.column !== undefined && i.column !== null
KeepRow(row) == row.present /\ row.column.ty # "undefined" /\ row.column.ty # "null"

RECURSIVE FilterFrom(_, _)
FilterFrom(rows, j) ==
  IF j > Len(rows) THEN <<>>
  ELSE (IF KeepRow(rows[j]) THEN <<j>> ELSE <<>>) \o FilterFrom(rows, j + 1)

\* ------------------------------------------------------------------ sort
\* The comparator (a, b) => a.column - b.column as -1, 0, 1; sort takes a NaN
\* result for 0.
Compare(a, b) ==
  LET diff == NumSub(ToNumber(a.column), ToNumber(b.column))
  IN  IF NumLess(diff, Fin(0, 1)) THEN -1
      ELSE IF NumLess(Fin(0, 1), diff) THEN 1
      ELSE 0

\* ECMAScript's consistent comparator, over the elements being sorted.
ConsistentComparator(rows, arr) ==
  LET E == {arr[p] : p \in 1..Len(arr)}
      c(x, y) == Compare(rows[x], rows[y])
  IN  /\ \A x \in E : c(x, x) = 0
      /\ \A x, y \in E : (c(x, y) = 0 => c(y, x) = 0) /\ (c(x, y) < 0 <=> c(y, x) > 0)
      /\ \A x, y, z \in E :
           /\ (c(x, y) = 0 /\ c(y, z) = 0) => c(x, z) = 0
           /\ (c(x, y) < 0 /\ c(y, z) < 0) => c(x, z) < 0
           /\ (c(x, y) > 0 /\ c(y, z) > 0) => c(x, z) > 0

PositionOrders(len) ==
  {g \in [1..len -> 1..len] : \A a, b \in 1..len : g[a] = g[b] => a = b}

\* Array.prototype.sort: stable and ascending under a consistent comparator,
\* an implementation-defined order otherwise.
SortOutcomes(rows, arr) ==
  LET stable(g) ==
        \A a, b \in 1..Len(arr) :
          a < b => \/ Compare(rows[arr[g[a]]], rows[arr[g[b]]]) < 0
                   \/ (Compare(rows[arr[g[a]]], rows[arr[g[b]]]) = 0 /\ g[a] < g[b])
      consistent == ConsistentComparator(rows, arr)
  IN  {[p \in 1..Len(arr) |-> arr[g[p]]] :
         g \in {h \in PositionOrders(Len(arr)) : consistent => stable(h)}}

\* ------------------------------------------------------------ the handler
VARIABLES
  data,          \* e.data.data: the caller's array of row objects
  sent,          \* the rows as the caller submitted them (never assigned again)
  transaction,   \* e.data.transaction
  copy,          \* the filtered, sorted array: positions of row objects in data
  columnType,    \* copy[0].columnType, read before the sort
  buckets,       \* bucket key -> bucket object
  bucketNaNInfo, \* bucket key -> [hasNaN |-> TRUE]
  total,         \* the grand total object
  totalNaNInfo,  \* [hasNaN |-> BOOLEAN]
  idx,           \* position of the row the running loop handles next
  pc,            \* "start", "sort", "bucket", "mean", "variance", "serialize", "done", "threw"
  posted         \* the messages handed to postMessage, in order

vars == <<data, sent, transaction, copy, columnType, buckets, bucketNaNInfo,
          total, totalNaNInfo, idx, pc, posted>>

Row(cat, res, type, column) ==
  [present |-> TRUE, categoryType |-> cat, resultType |-> res, columnType |-> type,
   columnTitle |-> Lit(<<"c", "p", "u">>), column |-> column]

\* A null entry of the array.
NullEntry ==
  [present |-> FALSE, categoryType |-> "", resultType |-> "", columnType |-> "",
   columnTitle |-> Undefined, column |-> Undefined]

\* The rows requests are built from.
RowChoices ==
  { Row("A", "x", "measure", Dec(1)),
    Row("A", "x", "measure", Dec(3)),
    Row("A", "x", "measure", Lit(TxAbc)),
    Row("B", "x", "measure", Lit(TxAbc)),
    Row("B", "x", "measure", Lit(TxInf)),
    Row("B", "x", "measure", Lit(<<"-">> \o TxInf)),
    Row("A", "y", "status", Lit(TxTrue)),
    Row("A", "y", "status", Dec(5)),
    Row("A", "total", "measure", Dec(2)),
    Row("A", "x", "measure", Fin(5, 1)),
    Row("A", "x", "measure", Null),
    Row("A", "x", "measure", Undefined),
    NullEntry }

RowChoicesCore ==
  { Row("A", "x", "measure", Dec(1)),
    Row("A", "x", "measure", Lit(TxAbc)),
    Row("B", "x", "measure", Lit(TxAbc)),
    Row("B", "x", "measure", Lit(TxInf)),
    Row("A", "y", "status", Lit(TxTrue)),
    Row("A", "x", "measure", Fin(5, 1)),
    Row("A", "x", "measure", Null),
    Row("A", "x", "measure", Undefined),
    NullEntry }

RowChoicesMedian ==
  { Row("A", "x", "measure", Dec(1)),
    Row("A", "x", "measure", Dec(2)),
    Row("A", "x", "measure", Dec(3)),
    Row("B", "x", "measure", Lit(TxAbc)),
    Row("A", "x", "measure", Fin(5, 1)) }

Tokens == {"t1", "t2"}

Requests(choices, maxLen) == UNION {[1..len -> choices] : len \in 0..maxLen}

InitWith(choices, maxLen) ==
  /\ data \in Requests(choices, maxLen)
  /\ sent = data
  /\ transaction \in Tokens
  /\ copy = <<>>
  /\ columnType = ""
  /\ buckets = <<>>
  /\ bucketNaNInfo = <<>>
  /\ total = <<>>
  /\ totalNaNInfo = [hasNaN |-> FALSE]
  /\ idx = 1
  /\ pc = "start"
  /\ posted = <<>>

Init == InitWith(RowChoices, MaxRows)

InitCore == InitWith(RowChoicesCore, MaxRows)

InitMedian == InitWith(RowChoicesMedian, MaxRowsMedian)

defaultObj ==
  [sum |-> Fin(0, 1), avg |-> Fin(0, 1), max |-> Lit(<<"-">> \o TxInfinity),
   median |-> Fin(0, 1), min |-> Lit(TxInfinity), stdev |-> Fin(0, 1),
   variance |-> Fin(0, 1)]

nanObj == [objKey \in DOMAIN defaultObj |-> Lit(TxNaN)]

\* { ...defaultObj, title, items: [] }
NewBucket(title) == Put(Put(defaultObj, "title", title), "items", <<>>)

\* A poisoned bucket that keeps the template's values.
NaNBucketKeepsDefaults(title) == Put(defaultObj, "title", title)

\* { ...nanObj, title }
NaNBucket(title) == Put(nanObj, "title", title)

postResult(result) == posted' = Append(posted, [result |-> result, transaction |-> transaction])

BucketKey(item) == item.categoryType \o "-" \o item.resultType
TotalKey(item) == item.categoryType \o "-total"

\* Lines 148-157: filter, rewrite infinities, and the answer for no data.
Normalize ==
  /\ pc = "start"
  /\ LET kept == FilterFrom(data, 1)
     IN  /\ data' = parsePythonInfinityValues(data, kept)
         /\ IF ParseThrows(data, kept)
            THEN /\ pc' = "threw"
                 /\ UNCHANGED <<copy, posted>>
            ELSE IF Len(kept) = 0
            THEN /\ postResult([total |-> Undefined])
                 /\ pc' = "done"
                 /\ UNCHANGED copy
            ELSE /\ copy' = kept
                 /\ pc' = "sort"
                 /\ UNCHANGED posted
  /\ UNCHANGED <<sent, transaction, columnType, buckets, bucketNaNInfo, total,
                 totalNaNInfo, idx>>

\* Lines 159-178: columnType, the sort, the total object and its NaN flag.
SortAndSetup ==
  /\ pc = "sort"
  /\ columnType' = data[copy[1]].columnType
  /\ \E sorted \in SortOutcomes(data, copy) :
       /\ copy' = sorted
       /\ total' = [Put(defaultObj, "items", <<>>) EXCEPT
                      !.max = data[sorted[Len(sorted)]].column,
                      !.min = data[sorted[1]].column]
  /\ totalNaNInfo' =
       [hasNaN |-> \E p \in 1..Len(copy) :
                     data[copy[p]].columnType # "status" /\ IsNaNValue(data[copy[p]].column)]
  /\ idx' = 1
  /\ pc' = "bucket"
  /\ UNCHANGED <<data, sent, transaction, buckets, bucketNaNInfo, posted>>

\* !value for the values a title can hold.
Falsy(v) ==
  \/ v.ty \in {"undefined", "null"}
  \/ (v.ty = "string" /\ v.k = "lit" /\ v.s = <<>>)
  \/ (v.ty = "number" /\ ~Truthy(v))

\* Lines 218-251 for one of the two bucket objects of a row: the sum, min and
\* max and the item list of obj after the row, unless the bucket is skipped.
FoldRow(obj, item, ref, skip) ==
  IF skip THEN obj
  ELSE LET summed == [obj EXCEPT !.sum = maybeAdd(obj.sum, item.column, item.columnType)]
           ranged == IF ~IsNaNValue(item.column)
                     THEN [summed EXCEPT !.max = mathStringMax(summed.max, item.column),
                                         !.min = mathStringMin(summed.min, item.column)]
                     ELSE summed
       IN  [ranged EXCEPT !.items = Append(ranged.items, ref)]

\* bucket.items.push on an object without items throws; the catch block calls
\* console.e, which is not a function, so the handler ends with a TypeError.
PushThrows(obj, skip) == ~skip /\ ~Has(obj, "items")

\* Lines 181-255: one iteration of the bucketing loop.
BucketStep ==
  /\ pc = "bucket"
  /\ idx <= Len(copy)
  /\ LET ref == copy[idx]
         item == data[ref]
         key == BucketKey(item)
         totalKey == TotalKey(item)
         title == item.columnTitle
         titled == IF ~Has(total, "title") \/ Falsy(total.title)
                   THEN Put(total, "title", title)
                   ELSE total
         bucket == IF Has(buckets, key) THEN buckets[key] ELSE NewBucket(title)
         subTotalBucket == IF Has(buckets, totalKey) THEN buckets[totalKey] ELSE NewBucket(title)
         itemIsNaN == item.columnType # "status" /\ IsNaNValue(item.column)
         skipBucket == shouldSkipBucket(bucketNaNInfo, key)
         skipSubTotal == shouldSkipBucket(bucketNaNInfo, totalKey)
         sameObject == key = totalKey /\ Has(buckets, key)
         next == IF idx = Len(copy) THEN "mean" ELSE "bucket"
     IN  IF itemIsNaN
         THEN /\ bucketNaNInfo' =
                   Put(Put(bucketNaNInfo, key, [hasNaN |-> TRUE]), totalKey, [hasNaN |-> TRUE])
              /\ buckets' = Put(Put(buckets, key, NaNBucket(title)), totalKey, NaNBucket(title))
              /\ total' = titled
              /\ idx' = idx + 1
              /\ pc' = next
         ELSE IF PushThrows(bucket, skipBucket) \/ PushThrows(subTotalBucket, skipSubTotal)
         THEN /\ pc' = "threw"
              /\ UNCHANGED <<bucketNaNInfo, buckets, total, idx>>
         ELSE /\ buckets' =
                   IF sameObject
                   THEN Put(buckets, key,
                            FoldRow(FoldRow(bucket, item, ref, skipBucket), item, ref, skipSubTotal))
                   ELSE Put(Put(buckets, key, FoldRow(bucket, item, ref, skipBucket)),
                            totalKey, FoldRow(subTotalBucket, item, ref, skipSubTotal))
              /\ total' =
                   IF ~totalNaNInfo.hasNaN
                   THEN [titled EXCEPT !.sum = maybeAdd(titled.sum, item.column, item.columnType)]
                   ELSE titled
              /\ idx' = idx + 1
              /\ pc' = next
              /\ UNCHANGED bucketNaNInfo
  /\ UNCHANGED <<data, sent, transaction, copy, columnType, totalNaNInfo, posted>>

Columns(refs) == [p \in 1..Len(refs) |-> data[refs[p]].column]

\* Lines 257-273: mean and median of every bucket that is not skipped, and of
\* the total.
MeanAndMedian ==
  /\ pc = "mean"
  /\ LET clean == {b \in DOMAIN buckets : ~shouldSkipBucket(bucketNaNInfo, b)}
     IN  IF \E b \in clean : ~Has(buckets[b], "items") \/ Len(buckets[b].items) = 0
         THEN /\ pc' = "threw"
              /\ UNCHANGED <<buckets, total, idx>>
         ELSE /\ buckets' =
                   [b \in DOMAIN buckets |->
                      IF b \in clean
                      THEN calculateMedian(calculateMean(buckets[b], Len(buckets[b].items)),
                                           Columns(buckets[b].items))
                      ELSE buckets[b]]
              /\ total' =
                   IF totalNaNInfo.hasNaN
                   THEN [x \in DOMAIN total |-> IF Has(nanObj, x) THEN nanObj[x] ELSE total[x]]
                   ELSE calculateMedian(calculateMean(total, Len(copy)), Columns(copy))
              /\ idx' = 1
              /\ pc' = "variance"
  /\ UNCHANGED <<data, sent, transaction, copy, columnType, bucketNaNInfo, totalNaNInfo, posted>>

\* Lines 275-291: one iteration of the variance loop.
VarianceStep ==
  /\ pc = "variance"
  /\ idx <= Len(copy)
  /\ LET item == data[copy[idx]]
         numCol == ToNumber(item.column)
         key == BucketKey(item)
         totalKey == TotalKey(item)
         diffBucket == NumSub(numCol, ToNumber(buckets[key].avg))
         diffSubTotal == NumSub(numCol, ToNumber(buckets[totalKey].avg))
         diffTotal == NumSub(numCol, ToNumber(total.avg))
         own == [buckets EXCEPT ![key].variance = JsPlus(@, NumSquare(diffBucket))]
     IN  IF IsNaNValue(item.column)
         THEN UNCHANGED <<buckets, total>>
         ELSE /\ total' = [total EXCEPT !.variance = JsPlus(@, NumSquare(diffTotal))]
              /\ buckets' = [own EXCEPT ![totalKey].variance = JsPlus(@, NumSquare(diffSubTotal))]
  /\ idx' = idx + 1
  /\ pc' = IF idx = Len(copy) THEN "serialize" ELSE "variance"
  /\ UNCHANGED <<data, sent, transaction, copy, columnType, bucketNaNInfo, totalNaNInfo, posted>>

\* Array.prototype.toString of a list of row objects.
ItemsText(items) ==
  Lit([p \in 1..(2 * Len(items) - 1) |-> IF p % 2 = 1 THEN "[object Object]" ELSE ","])

\* values[key] = val.toString() for every own property.
Stringify(obj) ==
  [x \in DOMAIN obj |-> IF x = "items" THEN ItemsText(obj[x]) ELSE JsToString(obj[x])]

\* Lines 302-326 for one bucket: the serialized bucket object.
SerializeBucket(bucketMeta, bucket, values, totalObj) ==
  IF shouldSkipBucket(bucketMeta, bucket)
  THEN Stringify(values)
  ELSE LET valuesHaveNegInf == ToNumber(values.min) = NegInf
           valuesHavePosInf == ToNumber(totalObj.max) = PosInf
           withStdev == [values EXCEPT !.stdev =
                           calculateStdev(valuesHaveNegInf, valuesHavePosInf,
                                          values.variance, Len(values.items))]
       IN  Without(Stringify(withStdev), {"items", "variance"})

\* Lines 293-336: the total's stdev, serialization, and the response.
Serialize ==
  /\ pc = "serialize"
  /\ LET totalHasNegInf == ToNumber(total.min) = NegInf
         totalHasPosInf == ToNumber(total.max) = PosInf
         withStdev == [total EXCEPT !.stdev =
                         calculateStdev(totalHasNegInf, totalHasPosInf,
                                        total.variance, Len(copy))]
         outBuckets == [b \in DOMAIN buckets |->
                          SerializeBucket(bucketNaNInfo, b, buckets[b], withStdev)]
         outTotal == Without(Stringify(withStdev), {"items", "variance"})
         result == [x \in {"columnType", "total"} \cup DOMAIN outBuckets |->
                      IF Has(outBuckets, x) THEN outBuckets[x]
                      ELSE IF x = "total" THEN outTotal
                      ELSE columnType]
     IN  /\ buckets' = outBuckets
         /\ total' = outTotal
         /\ postResult(result)
  /\ pc' = "done"
  /\ UNCHANGED <<data, sent, transaction, copy, columnType, bucketNaNInfo, totalNaNInfo, idx>>

Next ==
  \/ Normalize
  \/ SortAndSetup
  \/ BucketStep
  \/ MeanAndMedian
  \/ VarianceStep
  \/ Serialize

Spec == Init /\ [][Next]_vars

SpecCore == InitCore /\ [][Next]_vars

SpecMedian == InitMedian /\ [][Next]_vars

\* ------------------------------------------------------------ properties
\* The handler answered with statistics.
HasStats == pc = "done" /\ Len(posted) = 1 /\ Has(posted[1].result, "columnType")
Answer == posted[1].result
StatKeys == DOMAIN Answer \ {"columnType", "total"}
StatFields == {"sum", "avg", "max", "median", "min", "stdev"}

\* The submitted rows that reach the buckets (present, with a value).
Valued(row) == row.present /\ row.column.ty \in {"string", "number"}
ValuedRows == {j \in 1..Len(sent) : Valued(sent[j])}
\* The submitted rows a bucket key stands for, as own bucket or category total.
RowsOf(b) == {j \in ValuedRows : BucketKey(sent[j]) = b \/ TotalKey(sent[j]) = b}

InfinityTexts ==
  {sign \o word : sign \in {<<>>, <<"-">>, <<"+">>}, word \in {TxInf, TxInfinity}}

\* A non-status row whose value is not a number and not a recognized infinity.
Offending(row) ==
  /\ Valued(row)
  /\ row.columnType # "status"
  /\ row.column.ty = "string" /\ row.column.k = "lit"
  /\ row.column.s # <<>>
  /\ row.column.s \notin InfinityTexts

IntegerRow(row) ==
  Valued(row) /\ row.columnType # "status" /\ row.column.ty = "string" /\ row.column.k = "dec"

AllNaN(obj) == \A f \in StatFields : Has(obj, f) /\ obj[f] = Lit(TxNaN)

\* C1: a request whose rows all conform to the Row data model (column a string
\* or a number) never ends in an exception, and once handled has exactly one
\* response, carrying the request's token.
C1_NoExceptionOneResponse ==
  (\A j \in 1..Len(sent) : Valued(sent[j]))
    => /\ pc # "threw"
       /\ pc = "done" => Len(posted) = 1 /\ posted[1].transaction = transaction
       /\ pc # "done" => posted = <<>>

\* C2: the stdev of a bucket of numeric rows that is not poisoned follows from the bucket's own
\* min and max: "NaN" for -Infinity and +Infinity, "Infinity" when exactly one of
\* them is that infinity, a finite number when both are finite.
C2_StdevFromOwnBounds ==
  HasStats =>
    \A b \in {x \in StatKeys \ DOMAIN bucketNaNInfo :
                \A j \in RowsOf(x) : sent[j].columnType # "status"} :
      LET lo == ToNumber(Answer[b].min)
          hi == ToNumber(Answer[b].max)
          stdev == Answer[b].stdev
      IN  /\ (lo = NegInf /\ hi = PosInf) => stdev = Lit(TxNaN)
          /\ (lo = NegInf /\ hi.k = "fin") => stdev = Lit(TxInfinity)
          /\ (lo.k = "fin" /\ hi = PosInf) => stdev = Lit(TxInfinity)
          /\ (lo.k = "fin" /\ hi.k = "fin") => stdev.k \in {"dec", "decsqrt"}

\* C3: in the response, the bucket of an offending row, its category total and
\* the grand total have "NaN" in sum, avg, max, median, min and stdev.
C3_PoisonedAllNaN ==
  HasStats =>
    \A j \in 1..Len(sent) :
      Offending(sent[j]) =>
        /\ Has(Answer, BucketKey(sent[j])) /\ AllNaN(Answer[BucketKey(sent[j])])
        /\ Has(Answer, TotalKey(sent[j])) /\ AllNaN(Answer[TotalKey(sent[j])])
        /\ AllNaN(Answer.total)

\* A response in which a bucket got a valid row, then an offending row, then a
\* valid row again.
C3_Witness ==
  /\ HasStats
  /\ \E p, q, r \in 1..Len(copy) :
       /\ p < q /\ q < r
       /\ Offending(sent[copy[q]])
       /\ IntegerRow(sent[copy[p]]) /\ IntegerRow(sent[copy[r]])
       /\ BucketKey(sent[copy[p]]) = BucketKey(sent[copy[q]])
       /\ BucketKey(sent[copy[r]]) = BucketKey(sent[copy[q]])

\* C4: no bucket object of a response and not its total has the property items
\* or the property variance.
C4_NoScratchFields ==
  HasStats =>
    \A b \in StatKeys \cup {"total"} : ~Has(Answer[b], "items") /\ ~Has(Answer[b], "variance")

\* C5: after the handler returned, the caller's rows are as they were submitted.
C5_InputUnchanged == pc = "done" => data = sent

\* The values of the rows of a bucket in ascending order.
Ascending(b) ==
  LET n == Cardinality(RowsOf(b))
      f == CHOOSE g \in [1..n -> RowsOf(b)] :
             /\ \A x, y \in 1..n : g[x] = g[y] => x = y
             /\ \A x, y \in 1..n : x < y => sent[g[x]].column.n <= sent[g[y]].column.n
  IN  [x \in 1..n |-> sent[f[x]].column.n]

\* C6: the median of a bucket of integer rows that is not poisoned is the middle
\* of its values in ascending order, the mean of the two middle ones for an even
\* count.
C6_MedianIsMiddle ==
  HasStats =>
    \A b \in StatKeys \ DOMAIN bucketNaNInfo :
      (\A j \in RowsOf(b) : IntegerRow(sent[j])) =>
        LET vals == Ascending(b)
            n == Len(vals)
        IN  ToNumber(Answer[b].median) =
              IF n % 2 = 1 THEN Fin(vals[(n + 1) \div 2], 1)
              ELSE Fin(vals[n \div 2] + vals[(n \div 2) + 1], 2)

RECURSIVE SumOver(_)
SumOver(S) ==
  IF S = {} THEN 0
  ELSE LET j == CHOOSE x \in S : TRUE IN sent[j].column.n + SumOver(S \ {j})

\* C7: with integer rows only, the sum of a bucket is the sum of the rows with
\* its category and result type, the sum of a category total the sum of the rows
\* of the category, and the sum of the total the sum of all rows.
C7_ExactSums ==
  (HasStats /\ \A j \in ValuedRows : IntegerRow(sent[j])) =>
    /\ \A j \in ValuedRows :
         /\ ToNumber(Answer[BucketKey(sent[j])].sum) =
              Fin(SumOver({h \in ValuedRows :
                             /\ sent[h].categoryType = sent[j].categoryType
                             /\ sent[h].resultType = sent[j].resultType}), 1)
         /\ ToNumber(Answer[TotalKey(sent[j])].sum) =
              Fin(SumOver({h \in ValuedRows : sent[h].categoryType = sent[j].categoryType}), 1)
    /\ ToNumber(Answer.total.sum) = Fin(SumOver(ValuedRows), 1)

\* C8: a bucket that received only status rows, k of them, has sum k and the
\* initial min "Infinity" and max "-Infinity", whatever the rows' values are.
C8_StatusCounts ==
  HasStats =>
    \A b \in StatKeys :
      (\A j \in RowsOf(b) : sent[j].columnType = "status") =>
        /\ Answer[b].sum = JsToString(Fin(Cardinality(RowsOf(b)), 1))
        /\ Answer[b].min = Lit(TxInfinity)
        /\ Answer[b].max = Lit(<<"-">> \o TxInfinity)

\* C9: a request without a single present row that has a value is answered
\* once, with { total: undefined } and the request's token.
C9_NoDataResult ==
  (ValuedRows = {} /\ pc # "start") =>
    /\ pc = "done"
    /\ posted = <<[result |-> [total |-> Undefined], transaction |-> transaction]>>

\* An answered request of a null entry, a row with a null value and a row
\* with an undefined value.
C9_Witness ==
  /\ pc = "done"
  /\ ValuedRows = {}
  /\ \E j, h, g \in 1..Len(sent) :
       /\ ~sent[j].present
       /\ sent[h].present /\ sent[h].column = Null
       /\ sent[g].present /\ sent[g].column = Undefined
  /\ Len(posted) = 1

\* C10: from the step that marks a bucket hasNaN on, whatever the handler does
\* next, the bucket stays marked and each of sum, avg, median, min, max, variance
\* and stdev it has stays "NaN".
C10_PoisonedFrozen ==
  \A b \in DOMAIN bucketNaNInfo :
    /\ bucketNaNInfo[b].hasNaN
    /\ Has(buckets, b)
    /\ \A f \in (StatFields \cup {"variance"}) \cap DOMAIN buckets[b] :
         buckets[b][f] = Lit(TxNaN)
    /\ ~Has(buckets[b], "items")

====
